---- MODULE Spec2Model ----
(***************************************************************************)
(* Model of the two cafe sales generators of cafe_mock_generator:          *)
(*   src/cafe_generator.py      the RDB generator      (variant = "rdb")   *)
(*   src/cafe_generator_ch1.py  the chapter-1 generator (variant = "ch1")  *)
(* A run is one generation pass: the nested loop over dates, hours and     *)
(* visits, followed by the daily aggregation and (RDB) the noise pass.     *)
(* Dates are day numbers of the year 2024 (1 = 2024-01-01, a Monday).      *)
(* Fractions (multipliers, weights, rates) are integers in tenths.         *)
(***************************************************************************)
EXTENDS Integers, Sequences, FiniteSets, TLC

(* ------------------------------ bounds --------------------------------- *)
\* largest value a Poisson draw takes in the model
MaxArrivals == 1
\* largest number of visits handled in one run
MaxVisits == 2
\* rows of the customers table (generate_customers(num_customers))
NumCustomers == 2

(* --------------------------- small helpers ----------------------------- *)
Max(a, b) == IF a >= b THEN a ELSE b

Range(s) == {s[i] : i \in 1..Len(s)}

RECURSIVE SumSeq(_)
SumSeq(s) == IF s = <<>> THEN 0 ELSE s[1] + SumSeq(Tail(s))

(* ------------------------------ calendar ------------------------------- *)
DaysInMonth == <<31, 29, 31, 30, 31, 30, 31, 31, 30, 31, 30, 31>>

RECURSIVE MonthFrom(_, _)
MonthFrom(d, m) ==
    IF m >= 12 \/ d <= DaysInMonth[m] THEN m ELSE MonthFrom(d - DaysInMonth[m], m + 1)

\* datetime.month
Month(d) == MonthFrom(d, 1)

\* datetime.weekday(): Monday = 0 .. Sunday = 6
Weekday(d) == (d - 1) % 7

(* ------------------- str(), json.dumps(), str.contains ----------------- *)
Digit(n) == <<"0", "1", "2", "3", "4", "5", "6", "7", "8", "9">>[n + 1]

\* str(n) for a non-negative integer, as a sequence of characters
RECURSIVE Str(_)
Str(n) == IF n < 10 THEN <<Digit(n)>> ELSE Str(n \div 10) \o <<Digit(n % 10)>>

RECURSIVE JoinInts(_)
JoinInts(l) ==
    IF l = <<>> THEN <<>>
    ELSE IF Len(l) = 1 THEN Str(l[1])
         ELSE Str(l[1]) \o <<",", " ">> \o JoinInts(Tail(l))

\* json.dumps(list of int): "[7, 8, 17]"
JsonDumps(l) == <<"[">> \o JoinInts(l) \o <<"]">>

\* Series.str.contains(pat) for a pattern of plain digits: substring search
StrContains(s, pat) ==
    \E i \in 1..(Len(s) - Len(pat) + 1) : SubSeq(s, i, i + Len(pat) - 1) = pat


(* ---------------------------- configuration ---------------------------- *)
Genders == {"male", "female"}

\* config['menu']['categories']
Categories ==
    << [id |-> 1, name |-> "drink"], [id |-> 2, name |-> "food"] >>

Item(id, cat, price, cost, hours, pw) ==
    [id |-> id, category_id |-> cat, price |-> price, cost |-> cost,
     available_hours |-> hours, popularity_weight |-> pw,
     is_seasonal |-> FALSE, seasonal_preference |-> "", seasonal_multiplier |-> 10]

SeasonalItem(id, cat, price, cost, hours, pw, season, mult) ==
    [id |-> id, category_id |-> cat, price |-> price, cost |-> cost,
     available_hours |-> hours, popularity_weight |-> pw,
     is_seasonal |-> TRUE, seasonal_preference |-> season, seasonal_multiplier |-> mult]

\* config['menu']['items']: the menus the runs are checked with
MenuSingle   == << Item(1, 1, 500, 200, <<9>>, 10) >>
MenuAllDay   == << Item(1, 1, 500, 200, <<7, 8, 9>>, 10) >>
MenuLate     == << Item(1, 1, 500, 200, <<8>>, 10) >>
MenuEarly    == << Item(1, 1, 500, 200, <<7>>, 10) >>
MenuMorning  == << Item(1, 1, 500, 200, <<7, 8>>, 10), Item(2, 2, 300, 100, <<17>>, 10) >>
MenuPair     == << Item(1, 1, 500, 200, <<8, 9>>, 10),
                   SeasonalItem(2, 2, 300, 100, <<9, 10>>, 5, "winter", 20) >>
MenuZero     == << Item(1, 1, 500, 200, <<8, 9>>, 0) >>
MenuNegative == << Item(1, 1, 500, 200, <<8, 9>>, -10) >>
MenuZeroEarly == << Item(1, 1, 500, 200, <<7>>, 0), Item(2, 1, 500, 200, <<8>>, 10) >>

Menus == {MenuSingle, MenuAllDay, MenuLate, MenuEarly, MenuMorning, MenuPair, MenuZero, MenuNegative,
          MenuZeroEarly}

\* config['customers']['age_groups']
AgeGroups ==
    << [name |-> "twenties", min_age |-> 20, max_age |-> 29, base_ratio |-> 10] >>

\* config['customers']['preferences'][gender][age_group][category name]
PrefsFull ==
    [g \in Genders |->
        [a \in {"twenties"} |->
            IF g = "male" THEN ("drink" :> 10 @@ "food" :> 20)
                          ELSE ("drink" :> 15)]]
PrefsSparse ==
    [g \in {"male"} |-> [a \in {"twenties"} |-> ("drink" :> 10 @@ "food" :> 20)]]

\* config['customers']['behavioral_patterns']
PatternsBoth ==
    << [conditions |-> [day_types |-> {"weekday", "weekend"}, hours |-> 7..10],
        demographics |-> [gender_ratio |-> [male |-> 5, female |-> 5],
                          age_distribution |-> ("twenties" :> 10)]] >>
PatternsMale ==
    << [conditions |-> [day_types |-> {"weekday", "weekend"}, hours |-> 7..10],
        demographics |-> [gender_ratio |-> [male |-> 10, female |-> 0],
                          age_distribution |-> ("twenties" :> 10)]] >>

\* three patterns: weekdays at 7 and 8, weekends at 7, every day at 7
PatternsMixed ==
    << [conditions |-> [day_types |-> {"weekday"}, hours |-> {7, 8}],
        demographics |-> [gender_ratio |-> [male |-> 0, female |-> 10],
                          age_distribution |-> ("twenties" :> 10)]],
       [conditions |-> [day_types |-> {"weekend"}, hours |-> {7}],
        demographics |-> [gender_ratio |-> [male |-> 10, female |-> 0],
                          age_distribution |-> ("twenties" :> 10)]],
       [conditions |-> [day_types |-> {"weekday", "weekend"}, hours |-> {7}],
        demographics |-> [gender_ratio |-> [male |-> 0, female |-> 10],
                          age_distribution |-> ("twenties" :> 10)]] >>

\* config['data_generation'] multiplier tables (values in tenths)
NoTable      == [k \in {} |-> 10]
HourTable    == (7 :> 0 @@ 9 :> 5)
WeatherTable == ("rainy" :> 0)

\* config['data_generation']['business_hours'] open and close
Hours7to9  == [open |-> 7, close |-> 9]
Hours9to10 == [open |-> 9, close |-> 10]
Hours10to9 == [open |-> 10, close |-> 9]

\* (start_date, end_date): Sun 2024-01-07, Mon 2024-01-08
SunOnly == <<7, 7>>
SunMon  == <<7, 8>>

\* config['data_quality']['noise_injection'] rates, in tenths
Noise(missing, outlier) == [missing_data_rate |-> missing, outlier_rate |-> outlier]

Cfg(dr, cd, bh, base, hm, wm, items, prefs, patterns, nr) ==
    [data_generation |->
        [start_date |-> dr[1], end_date |-> dr[2],
         business_hours |-> [open |-> bh.open, close |-> bh.close, closed_days |-> cd],
         base_customers_per_hour |-> base,
         hour_multiplier |-> hm,
         weather_multiplier |-> wm,
         seasonal_multiplier |-> NoTable,
         int_keys |-> NoTable,
         str_keys |-> NoTable,
         special_events |-> <<>>,
         id_generation |-> [customer_id_start |-> 1001, order_id_start |-> 5001]],
     menu |-> [categories |-> Categories, items |-> items],
     customers |-> [age_groups |-> AgeGroups,
                    gender_distribution |-> patterns[1].demographics.gender_ratio,
                    preferences |-> prefs,
                    behavioral_patterns |-> patterns],
     data_quality |-> [noise_injection |-> nr],
     output |-> [formats |-> <<"csv", "json", "xlsx", "db">>],
     failing_write |-> "none",
     load |-> "ok",
     missing |-> {}]

\* the same configuration run where every write of one output format fails
WithFailingWrite(cfg, format) == [cfg EXCEPT !.failing_write = format]

\* the same configuration when open() or yaml.safe_load raises on the file
Unloadable(cfg, exc) == [cfg EXCEPT !.load = exc]

\* the same configuration document without one of its keys
Without(cfg, key) == [cfg EXCEPT !.missing = {key}]

\* the same configuration with config['data_generation']['special_events']
WithEvents(cfg, events) == [cfg EXCEPT !.data_generation.special_events = events]

\* special events: one on another date, then two on Sun 2024-01-07
EventsOnSunday ==
    << [date |-> 9, multiplier |-> 50], [date |-> 7, multiplier |-> 20],
       [date |-> 7, multiplier |-> 30] >>

\* the keys left out of a configuration in the runs that are checked
OmittedKeys ==
    {"data_generation", "menu", "customers", "output", "data_quality", "hour_multiplier"}

\* the configurations the runs are checked with
Configs ==
    { \* one open day, one hour, one item
      Cfg(SunOnly, {}, Hours9to10, 3, NoTable, NoTable, MenuSingle, PrefsFull, PatternsMale, Noise(0, 0)),
      \* one open day, two hours, one item; the noise pass off and on
      Cfg(SunOnly, {}, Hours7to9, 3, NoTable, NoTable, MenuAllDay, PrefsFull, PatternsMale, Noise(0, 0)),
      Cfg(SunOnly, {}, Hours7to9, 3, NoTable, NoTable, MenuAllDay, PrefsFull, PatternsMale, Noise(5, 5)),
      Cfg(SunOnly, {}, Hours7to9, 3, NoTable, NoTable, MenuAllDay, PrefsFull, PatternsMale, Noise(5, 0)),
      Cfg(SunOnly, {}, Hours9to10, 3, NoTable, NoTable, MenuSingle, PrefsFull, PatternsMale, Noise(0, 5)),
      \* the only day of the range is a closed day
      Cfg(SunOnly, {6}, Hours9to10, 3, NoTable, NoTable, MenuSingle, PrefsFull, PatternsMale, Noise(0, 0)),
      \* two days, the first one closed
      Cfg(SunMon, {6}, Hours9to10, 3, NoTable, NoTable, MenuSingle, PrefsFull, PatternsMale, Noise(0, 0)),
      \* hours 7 and 8 with items listed for 7, 8 and for 17
      Cfg(SunOnly, {}, Hours7to9, 3, NoTable, NoTable, MenuMorning, PrefsFull, PatternsMale, Noise(0, 0)),
      \* hours 7 and 8 with no item listed for them
      Cfg(SunOnly, {}, Hours7to9, 3, NoTable, NoTable, MenuSingle, PrefsFull, PatternsMale, Noise(0, 0)),
      \* two candidates in one hour
      Cfg(SunOnly, {}, Hours9to10, 3, NoTable, NoTable, MenuPair, PrefsFull, PatternsMale, Noise(0, 0)),
      \* weights that sum to zero or less
      Cfg(SunOnly, {}, Hours9to10, 3, NoTable, NoTable, MenuZero, PrefsFull, PatternsMale, Noise(0, 0)),
      Cfg(SunOnly, {}, Hours9to10, 3, NoTable, NoTable, MenuNegative, PrefsFull, PatternsMale, Noise(0, 0)),
      \* expected arrivals of zero: base rate 0, hour factor 0.0, weather factor 0.0
      Cfg(SunOnly, {}, Hours9to10, 0, NoTable, NoTable, MenuSingle, PrefsFull, PatternsMale, Noise(0, 0)),
      Cfg(SunOnly, {}, Hours7to9, 1, HourTable, NoTable, MenuAllDay, PrefsFull, PatternsMale, Noise(0, 0)),
      Cfg(SunOnly, {}, Hours9to10, 1, HourTable, NoTable, MenuSingle, PrefsFull, PatternsMale, Noise(0, 0)),
      Cfg(SunOnly, {}, Hours9to10, 3, NoTable, WeatherTable, MenuSingle, PrefsFull, PatternsMale, Noise(0, 0)),
      \* customers of both genders, with and without a preference entry for each
      Cfg(SunOnly, {}, Hours9to10, 3, NoTable, NoTable, MenuSingle, PrefsFull, PatternsBoth, Noise(0, 0)),
      Cfg(SunOnly, {}, Hours9to10, 3, NoTable, NoTable, MenuSingle, PrefsSparse, PatternsBoth, Noise(0, 0)),
      \* the database write, or the spreadsheet write, fails
      WithFailingWrite(
        Cfg(SunOnly, {}, Hours9to10, 3, NoTable, NoTable, MenuSingle, PrefsFull, PatternsMale, Noise(0, 0)),
        "db"),
      WithFailingWrite(
        Cfg(SunOnly, {}, Hours9to10, 3, NoTable, NoTable, MenuSingle, PrefsFull, PatternsMale, Noise(0, 0)),
        "xlsx") }
    \cup
    \* hours 7 and 8 with an item listed for 8 only
    { Cfg(SunOnly, {}, Hours7to9, 3, NoTable, NoTable, MenuLate, PrefsFull, PatternsMale, Noise(0, 0)) }
    \cup
    \* hours 7 and 8, the item of hour 7 with weight zero
    { Cfg(SunOnly, {}, Hours7to9, 3, NoTable, NoTable, MenuZeroEarly, PrefsFull, PatternsMale, Noise(0, 0)) }
    \cup
    \* one hour with the noise pass on
    { Cfg(SunOnly, {}, Hours9to10, 3, NoTable, NoTable, MenuSingle, PrefsFull, PatternsMale, Noise(5, 5)) }
    \cup
    \* two days with every weekday closed; two open days with open >= close
    { Cfg(SunMon, 0..6, Hours9to10, 3, NoTable, NoTable, MenuSingle, PrefsFull, PatternsMale, Noise(0, 0)),
      Cfg(SunMon, {}, Hours10to9, 3, NoTable, NoTable, MenuSingle, PrefsFull, PatternsMale, Noise(0, 0)) }
    \cup
    \* two days, two hours, several behavioural patterns and hours without one
    { Cfg(SunMon, {}, Hours7to9, 3, NoTable, NoTable, MenuEarly, PrefsFull, PatternsMixed, Noise(0, 0)) }
    \cup
    \* two open days, special events configured for the first one
    { WithEvents(
        Cfg(SunMon, {}, Hours9to10, 3, NoTable, NoTable, MenuSingle, PrefsFull, PatternsMale, Noise(0, 0)),
        EventsOnSunday) }
    \cup
    \* a configuration file that cannot be read, or that lacks a key
    { Unloadable(
        Cfg(SunOnly, {}, Hours9to10, 3, NoTable, NoTable, MenuSingle, PrefsFull, PatternsMale, Noise(0, 0)),
        exc) : exc \in {"FileNotFoundError", "YAMLError"} }
    \cup
    { Without(
        Cfg(SunOnly, {}, Hours9to10, 3, NoTable, NoTable, MenuSingle, PrefsFull, PatternsMale, Noise(0, 0)),
        key) : key \in OmittedKeys }

(* ------------------------- shared pure functions ----------------------- *)
\* float('nan') written by the noise pass into a temperature cell
NaN == -9999

\* bounded outcomes of the random draws
WeatherDraws == {"sunny", "rainy"}
MinuteDraws  == {59}
TimeDraws    == {<<59, 59>>}

\* int(x) for the fraction n/d, d > 0: truncation toward zero
Trunc(n, d) == IF n >= 0 THEN n \div d ELSE -((-n) \div d)

\* table[key] if the key is present, else the neutral factor 1.0
LookupOr1(table, key) == IF key \in DOMAIN table THEN table[key] ELSE 10

\* max(0, np.random.poisson(...)) applied to one draw
ActualCustomersMin1(draw) == Max(1, draw)
ActualCustomers(draw) == Max(0, draw)

\* np.random.poisson(lam) for lam = n/d >= 0: 0 when lam = 0, else any count
PoissonDraws(n, cap) == IF n = 0 THEN {0} ELSE 0..cap

\* the for-loop over range(open, close) is exhausted
HourLoopDoneLate(hour, close) == hour > close
HourLoopDone(hour, close) == hour >= close

\* the closed-day test at the head of the date loop
IsClosedDay(date, closed_days) == Weekday(date) \in closed_days

\* current_date += timedelta(days=1)
NextDaySame(date) == date
NextDay(date) == date + 1

\* order_id += 1 / customer_id_counter += 1
NextIdSame(id) == id
NextId(id) == id + 1

\* the guard "sum(weights) > 0" in front of the normalisation
WeightSumPositiveOrNegative(weights) == SumSeq(weights) # 0
WeightSumPositive(weights) == SumSeq(weights) > 0

\* np.random.choice(candidates, p = weights / sum(weights)):
\* the indices that can be drawn (normalised probability > 0)
ChoiceSupport(weights) ==
    {i \in 1..Len(weights) : weights[i] * SumSeq(weights) > 0}

\* np.random.choice raises ValueError: a nan or negative probability
ChoiceRaises(weights) ==
    \/ SumSeq(weights) = 0
    \/ \E i \in 1..Len(weights) : weights[i] * SumSeq(weights) < 0

(* ------------------------- RDB generator: helpers ---------------------- *)
\* generate_menu_items: one menu_df row per configured item
MenuRow(item) ==
    [menu_id |-> item.id, category_id |-> item.category_id,
     price |-> item.price, cost |-> item.cost,
     available_hours |-> JsonDumps(item.available_hours),
     popularity_weight |-> item.popularity_weight,
     is_seasonal |-> item.is_seasonal,
     seasonal_preference |-> item.seasonal_preference,
     seasonal_multiplier |-> item.seasonal_multiplier]

generate_menu_items(cfg) ==
    [i \in 1..Len(cfg.menu.items) |-> MenuRow(cfg.menu.items[i])]

\* _get_weather_for_date: the weathers of non-zero probability, and temp_base
RdbWeatherSupport(date) ==
    IF Month(date) \in {12, 1, 2} THEN {"sunny", "cloudy", "rainy", "snowy"}
    ELSE {"sunny", "cloudy", "rainy"}

RdbTempBase(date) ==
    IF Month(date) \in {12, 1, 2} THEN 5
    ELSE IF Month(date) \in {6, 7, 8} THEN 25 ELSE 15

\* _calculate_demand_multiplier: the product as the fraction <<num, den>>
RdbEventFactor(events, date) ==
    IF \E i \in 1..Len(events) : events[i].date = date
    THEN events[CHOOSE i \in 1..Len(events) :
                   /\ events[i].date = date
                   /\ \A j \in 1..(i - 1) : events[j].date # date].multiplier
    ELSE 10

_calculate_demand_multiplier(cfg, date, hour, weather) ==
    LET dg == cfg.data_generation
    IN  << LookupOr1(dg.int_keys, Weekday(date))
             * LookupOr1(dg.hour_multiplier, hour)
             * LookupOr1(dg.weather_multiplier, weather)
             * LookupOr1(dg.seasonal_multiplier, Month(date))
             * RdbEventFactor(dg.special_events, date),
           100000 >>

\* menu_df[menu_df['available_hours'].str.contains(str(hour))]
RdbAvailableMenu(menu_df, hour) ==
    SelectSeq(menu_df, LAMBDA row : StrContains(row.available_hours, Str(hour)))

\* _get_seasonal_multiplier, in tenths
_get_seasonal_multiplier(date, seasonal_preference) ==
    IF seasonal_preference = "summer" /\ Month(date) \in {6, 7, 8} THEN 15
    ELSE IF seasonal_preference = "winter" /\ Month(date) \in {12, 1, 2} THEN 13
    ELSE IF seasonal_preference = "spring" /\ Month(date) \in {3, 4, 5} THEN 12
    ELSE IF seasonal_preference = "autumn" /\ Month(date) \in {9, 10, 11} THEN 12
    ELSE 10

\* the weights list of _select_menu_items (scale 1/100)
RdbWeights(available_menu, date) ==
    [i \in 1..Len(available_menu) |->
        IF available_menu[i].is_seasonal
        THEN available_menu[i].popularity_weight
               * _get_seasonal_multiplier(date, available_menu[i].seasonal_preference)
        ELSE available_menu[i].popularity_weight * 10]

\* the preferences lookup of _select_menu_items raises KeyError
RdbPreferencesMissing(cfg, customer) ==
    \/ customer.gender \notin DOMAIN cfg.customers.preferences
    \/ customer.age_group \notin DOMAIN cfg.customers.preferences[customer.gender]

\* selected_items after the main draw and an optional additional draw
\* (a dict in insertion order: a sequence of [menu_id, quantity])
RdbSelected(first_id, has_extra, extra_id) ==
    IF ~has_extra THEN << [menu_id |-> first_id, quantity |-> 1] >>
    ELSE IF extra_id = first_id THEN << [menu_id |-> first_id, quantity |-> 2] >>
    ELSE << [menu_id |-> first_id, quantity |-> 1], [menu_id |-> extra_id, quantity |-> 1] >>

\* menu_df[menu_df['menu_id'] == item_id].iloc[0]
RdbItemInfo(menu_df, item_id) ==
    menu_df[CHOOSE i \in 1..Len(menu_df) :
               /\ menu_df[i].menu_id = item_id
               /\ \A j \in 1..(i - 1) : menu_df[j].menu_id # item_id]

\* one order_items row
RdbOrderItem(order_id, menu_df, sel) ==
    [order_id |-> order_id, menu_id |-> sel.menu_id, quantity |-> sel.quantity,
     unit_price |-> RdbItemInfo(menu_df, sel.menu_id).price,
     subtotal |-> RdbItemInfo(menu_df, sel.menu_id).price * sel.quantity]

\* current_date.replace(hour=hour) + timedelta(minutes=m), in minutes of the year
RdbOrderDatetime(date, hour, m) == date * 1440 + hour * 60 + m

\* .dt.date and .hour of a stored order_datetime
DateOf(dt) == dt \div 1440
HourOf(dt) == (dt % 1440) \div 60


\* generate_customers: the (age_group, gender) one row's draws can give
CustomerDraws(cfg) ==
    { [age_group |-> cfg.customers.age_groups[i].name, gender |-> g] :
        i \in {j \in 1..Len(cfg.customers.age_groups) :
                  cfg.customers.age_groups[j].base_ratio > 0},
        g \in {x \in Genders : cfg.customers.gender_distribution[x] > 0} }

CustomerRow(cfg, i, draw) ==
    [customer_id |-> cfg.data_generation.id_generation.customer_id_start + (i - 1),
     age_group |-> draw.age_group, gender |-> draw.gender]

\* sorted(set) as a sequence, ascending (groupby sorts its keys)
RECURSIVE SortedSeq(_)
SortedSeq(S) ==
    IF S = {} THEN <<>>
    ELSE LET m == CHOOSE x \in S : \A y \in S : x <= y
         IN  <<m>> \o SortedSeq(S \ {m})

\* Series.mode().iloc[0]: the most frequent value, the smallest one on a tie
WeatherRank == [w \in {"cloudy", "rainy", "snowy", "sunny"} |->
                  IF w = "cloudy" THEN 1 ELSE IF w = "rainy" THEN 2
                  ELSE IF w = "snowy" THEN 3 ELSE 4]

Count(s, v) == Cardinality({i \in 1..Len(s) : s[i] = v})

Mode(s) ==
    CHOOSE v \in Range(s) :
        \A u \in Range(s) :
            \/ Count(s, v) > Count(s, u)
            \/ Count(s, v) = Count(s, u) /\ WeatherRank[v] <= WeatherRank[u]

\* order_items_df.groupby('order_id').agg(sum) for one order_id
ItemsOf(items, oid) == SelectSeq(items, LAMBDA r : r.order_id = oid)
SubtotalOf(items, oid) ==
    SumSeq([i \in 1..Len(ItemsOf(items, oid)) |-> ItemsOf(items, oid)[i].subtotal])
QuantityOf(items, oid) ==
    SumSeq([i \in 1..Len(ItemsOf(items, oid)) |-> ItemsOf(items, oid)[i].quantity])

\* orders_df.merge(..., on='order_id'): inner join, orders that have item rows
RdbOrderSummary(ords, items) ==
    SelectSeq(ords, LAMBDA o : \E i \in 1..Len(items) : items[i].order_id = o.order_id)

\* 'temperature': 'mean' skips NaN cells and is NaN when every cell is NaN; the
\* orders of one date carry one temperature, so the mean of the others is exact
MeanTemperature(temps) ==
    LET known == SelectSeq(temps, LAMBDA t : t # NaN)
    IN  IF known = <<>> THEN NaN ELSE SumSeq(known) \div Len(known)

\* one daily_summary row
RdbSummaryRow(ords, items, d) ==
    LET grp == SelectSeq(RdbOrderSummary(ords, items),
                         LAMBDA o : DateOf(o.order_datetime) = d)
    IN  [date |-> d,
         total_orders |-> Len(grp),
         unique_customers |-> Cardinality({grp[i].customer_id : i \in 1..Len(grp)}),
         total_sales |-> SumSeq([i \in 1..Len(grp) |-> SubtotalOf(items, grp[i].order_id)]),
         total_items_sold |-> SumSeq([i \in 1..Len(grp) |-> QuantityOf(items, grp[i].order_id)]),
         avg_temperature |-> MeanTemperature([i \in 1..Len(grp) |-> grp[i].temperature]),
         weather_condition |-> Mode([i \in 1..Len(grp) |-> grp[i].weather_condition]),
         is_weekend |-> grp[1].is_weekend]

\* generate_daily_summary on frames that have their columns
generate_daily_summary(ords, items) ==
    LET js    == RdbOrderSummary(ords, items)
        dates == SortedSeq({DateOf(js[i].order_datetime) : i \in 1..Len(js)})
    IN  [k \in 1..Len(dates) |-> RdbSummaryRow(ords, items, dates[k])]

\* pd.DataFrame([]) has no columns: groupby('order_id') raises KeyError
RdbSummaryRaises(ords, items) == items = <<>>

\* _inject_noise: the effect on one selected row
OutlierRowSubtotalOnly(r) == [r EXCEPT !.subtotal = @ * 10]
OutlierRow(r) == [r EXCEPT !.unit_price = @ * 10, !.subtotal = @ * 10]
MissingRow(o) == [o EXCEPT !.temperature = NaN]

\* size = int(len(df) * rate), rate in tenths
NoiseSize(n, rate) == Trunc(n * rate, 10)

\* np.random.choice(df.index, size, replace=False)
IndexChoices(n, size) == {S \in SUBSET (1..n) : Cardinality(S) = size}

\* the frame an aggregation call returns: built from its inputs alone
SummaryResultAppended(previous, rows) == previous \o rows
SummaryResult(previous, rows) == rows

\* export_data: the formats are exported in configured order; an error of
\* _export_csv, _export_json or _export_xlsx propagates, _export_database
\* logs the error of a failed to_sql and returns
RECURSIVE RdbExportRun(_, _, _)
RdbExportRun(formats, failing, done) ==
    IF formats = <<>> THEN [written |-> done, error |-> "none"]
    ELSE IF Head(formats) # failing
         THEN RdbExportRun(Tail(formats), failing, done \cup {Head(formats)})
         ELSE IF Head(formats) = "db"
              THEN RdbExportRun(Tail(formats), failing, done)
              ELSE [written |-> done, error |-> "OSError"]

(* --------------------- chapter-1 generator: helpers -------------------- *)
\* the category name of a category id ({cat["id"]: cat["name"]})
CategoryName(cfg, cid) ==
    cfg.menu.categories[CHOOSE i \in 1..Len(cfg.menu.categories) :
                           cfg.menu.categories[i].id = cid].name

\* _prepare_menu_items
PreparedItemRepriced(cfg, item) ==
    [id |-> item.id, category |-> CategoryName(cfg, item.category_id),
     price |-> item.cost, cost |-> item.cost,
     available_hours |-> item.available_hours,
     popularity |-> item.popularity_weight,
     is_seasonal |-> item.is_seasonal,
     seasonal_preference |-> item.seasonal_preference,
     seasonal_multiplier |-> item.seasonal_multiplier]
PreparedItem(cfg, item) ==
    [id |-> item.id, category |-> CategoryName(cfg, item.category_id),
     price |-> item.price, cost |-> item.cost,
     available_hours |-> item.available_hours,
     popularity |-> item.popularity_weight,
     is_seasonal |-> item.is_seasonal,
     seasonal_preference |-> item.seasonal_preference,
     seasonal_multiplier |-> item.seasonal_multiplier]

_prepare_menu_items(cfg) ==
    [i \in 1..Len(cfg.menu.items) |-> PreparedItem(cfg, cfg.menu.items[i])]

\* the built-in pattern returned when no configured pattern matches
DefaultPattern ==
    [demographics |->
        [gender_ratio |-> [male |-> 45, female |-> 55],
         age_distribution |-> ("teens" :> 15 @@ "twenties" :> 35 @@ "thirties" :> 25
                               @@ "forties" :> 15 @@ "seniors" :> 10)]]

\* _get_customer_pattern: the first matching pattern, else the default one
_get_customer_pattern_last(patterns, date, hour) ==
    LET day_type == IF Weekday(date) >= 5 THEN "weekend" ELSE "weekday"
        Matches(i) == /\ day_type \in patterns[i].conditions.day_types
                      /\ hour \in patterns[i].conditions.hours
    IN  IF \E i \in 1..Len(patterns) : Matches(i)
        THEN [demographics |->
                patterns[CHOOSE i \in 1..Len(patterns) :
                            Matches(i) /\ \A j \in (i + 1)..Len(patterns) :
                                             ~Matches(j)].demographics]
        ELSE DefaultPattern
_get_customer_pattern(patterns, date, hour) ==
    LET day_type == IF Weekday(date) >= 5 THEN "weekend" ELSE "weekday"
        Matches(i) == /\ day_type \in patterns[i].conditions.day_types
                      /\ hour \in patterns[i].conditions.hours
    IN  IF \E i \in 1..Len(patterns) : Matches(i)
        THEN [demographics |->
                patterns[CHOOSE i \in 1..Len(patterns) :
                            Matches(i) /\ \A j \in 1..(i - 1) : ~Matches(j)].demographics]
        ELSE DefaultPattern

\* bounded outcomes of the age-group draw
AgeGroupDraws == {"teens", "twenties"}

\* the age bracket of a name in config['customers']['age_groups'] exists
HasAgeGroup(cfg, name) ==
    \E i \in 1..Len(cfg.customers.age_groups) : cfg.customers.age_groups[i].name = name

\* _generate_customer_demographics: the outcomes of the gender and age-group draws
DemographicDraws(cfg, pattern) ==
    { [gender |-> g, age_group |-> ag] :
        g \in {x \in Genders : pattern.demographics.gender_ratio[x] > 0},
        ag \in {x \in DOMAIN pattern.demographics.age_distribution \cap AgeGroupDraws :
                  pattern.demographics.age_distribution[x] > 0} }

\* _get_customer_preferences: the configured table, or the built-in default
DefaultPreferences ==
    [c \in {"morning", "lunch", "snack", "drink", "sweets"} |-> 10]

_get_customer_preferences(cfg, gender, age_group) ==
    IF /\ gender \in DOMAIN cfg.customers.preferences
       /\ age_group \in DOMAIN cfg.customers.preferences[gender]
    THEN cfg.customers.preferences[gender][age_group]
    ELSE DefaultPreferences

\* _get_weather_for_date: the weathers of non-zero probability
Ch1WeatherSupport(date) ==
    IF Month(date) \in {6, 7, 8} THEN {"sunny", "cloudy", "rainy"}
    ELSE {"sunny", "cloudy", "rainy", "snowy"}

\* _apply_seasonal_adjustment (scale 1/100)
CurrentSeason(date) ==
    IF Month(date) \in {3, 4, 5} THEN "spring"
    ELSE IF Month(date) \in {6, 7, 8} THEN "summer"
    ELSE IF Month(date) \in {9, 10, 11} THEN "autumn"
    ELSE "winter"

_apply_seasonal_adjustment(item, date) ==
    IF ~item.is_seasonal THEN item.popularity * 10
    ELSE IF CurrentSeason(date) = item.seasonal_preference
         THEN item.popularity * item.seasonal_multiplier
         ELSE item.popularity * 10

\* _calculate_hourly_customers: the Poisson mean as the fraction <<num, den>>
Ch1Lambda(cfg, date, hour, w) ==
    LET dg == cfg.data_generation
    IN  << dg.base_customers_per_hour
             * LookupOr1(dg.str_keys, Str(Weekday(date)))
             * LookupOr1(dg.hour_multiplier, hour)
             * LookupOr1(dg.weather_multiplier, w)
             * LookupOr1(dg.seasonal_multiplier, Month(date)),
           10000 >>

\* _select_menu_items_with_preferences: candidates and weights (scale 1/1000)
Ch1AvailableItems(items, h) ==
    SelectSeq(items, LAMBDA item : h \in Range(item.available_hours))

Ch1Weights(cfg, available_items, demo, date) ==
    LET preferences == _get_customer_preferences(cfg, demo.gender, demo.age_group)
    IN  [i \in 1..Len(available_items) |->
            _apply_seasonal_adjustment(available_items[i], date)
              * LookupOr1(preferences, available_items[i].category)]

\* order_timestamp, in seconds of the year
Ch1Timestamp(date, h, minute, second) == date * 86400 + h * 3600 + minute * 60 + second

\* one sales_data row (the columns 注文ID, 顧客ID, 日時, 日付, 時間, 商品ID,
\* カテゴリ, 単価, 原価, 利益, 天気, 性別, 年代 under ASCII names)
Ch1Row(oid, cid, ts, date, h, item, w, demo) ==
    [order_id |-> oid, customer_id |-> cid, datetime |-> ts, date |-> date,
     hour |-> h, product_id |-> item.id, category |-> item.category,
     unit_price |-> item.price, cost |-> item.cost, profit |-> item.price - item.cost,
     weather |-> w, gender |-> demo.gender, age_group |-> demo.age_group]

\* _create_daily_summary: pd.DataFrame([]) has no columns, groupby raises KeyError
Ch1SummaryRaises(df) == df = <<>>

\* the group keys (日付, 天気) in sorted order; 曜日, 季節 and 平日休日 follow 日付
RECURSIVE SortedKeys(_)
SortedKeys(S) ==
    IF S = {} THEN <<>>
    ELSE LET m == CHOOSE x \in S : \A y \in S :
                     \/ x[1] < y[1]
                     \/ x[1] = y[1] /\ WeatherRank[x[2]] <= WeatherRank[y[2]]
         IN  <<m>> \o SortedKeys(S \ {m})

Ch1SummaryRow(df, key) ==
    LET grp == SelectSeq(df, LAMBDA r : r.date = key[1] /\ r.weather = key[2])
    IN  [date |-> key[1], weather |-> key[2],
         order_count |-> Len(grp),
         total_sales |-> SumSeq([i \in 1..Len(grp) |-> grp[i].unit_price]),
         total_profit |-> SumSeq([i \in 1..Len(grp) |-> grp[i].profit]),
         unique_customers |-> Cardinality({grp[i].customer_id : i \in 1..Len(grp)})]

_create_daily_summary(df) ==
    LET keys == SortedKeys({<<df[i].date, df[i].weather>> : i \in 1..Len(df)})
    IN  [k \in 1..Len(keys) |-> Ch1SummaryRow(df, keys[k])]

\* np.random.choice([1, 2, 3], p=[0.6, 0.3, 0.1])
NumOrdersDraws == {1, 2, 3}


(* ------------------------------- state --------------------------------- *)
VARIABLES
    variant,        \* "rdb" or "ch1": which generator runs
    config,         \* self.config
    pc,             \* position of the run
    error,          \* the exception that ended the run, "none" if none
    menu_df,        \* RDB: the menu master table
    menu_items,     \* ch1: self.menu_items
    customers_df,   \* RDB: the customer master table
    current_date, hour, weather, temperature,
    lam,            \* numerator of the expected arrivals of the current hour
    remaining,      \* visits of the current hour still to generate
    order_id,       \* order_id / order_id_counter
    customer_id_counter,
    orders, order_items,   \* RDB result lists
    sales_data,     \* ch1 result list
    daily_summary,
    visits,         \* number of visits generated so far
    issued,         \* history: the identifiers given to each recorded visit
    last_sel,       \* history: the item selection of the latest visit
    last_pattern,   \* history: the latest result of _get_customer_pattern
    resummary,      \* the daily summary returned by the latest repeated aggregation
    written         \* the output formats written so far

vars == << variant, config, pc, error, menu_df, menu_items, customers_df,
           current_date, hour, weather, temperature, lam, remaining, order_id,
           customer_id_counter, orders, order_items, sales_data, daily_summary,
           visits, issued, last_sel, last_pattern, resummary, written >>

\* no call of _get_customer_pattern yet
NoPattern == [called |-> FALSE, date |-> 0, hour |-> 0,
              demographics |-> DefaultPattern.demographics]

NoSel == [stage |-> "none", weights |-> <<>>, size |-> 0,
          gender |-> "none", age_group |-> "none", date |-> 0, hour |-> 0]

\* the record kept of one call of the item selection
Sel(stage, weights, size, customer) ==
    [stage |-> stage, weights |-> weights, size |-> size,
     gender |-> customer.gender, age_group |-> customer.age_group,
     date |-> current_date, hour |-> hour]

Init ==
    /\ variant \in {"rdb", "ch1"}
    /\ config \in Configs
    /\ pc = "new"
    /\ error = "none"
    /\ menu_df = <<>>
    /\ menu_items = <<>>
    /\ customers_df = <<>>
    /\ current_date = 0
    /\ hour = 0
    /\ weather = "none"
    /\ temperature = 0
    /\ lam = 0
    /\ remaining = 0
    /\ order_id = 0
    /\ customer_id_counter = 0
    /\ orders = <<>>
    /\ order_items = <<>>
    /\ sales_data = <<>>
    /\ daily_summary = <<>>
    /\ visits = 0
    /\ issued = <<>>
    /\ last_sel = NoSel
    /\ last_pattern = NoPattern
    /\ resummary = <<>>
    /\ written = {}

(* --------------------------- RDB generator ----------------------------- *)
\* CafeDataGenerator("config.yaml"): _load_config, _parse_config and
\* _create_output_directories
RdbInit ==
    /\ variant = "rdb" /\ pc = "new"
    /\ IF config.load # "ok"
       THEN pc' = "failed" /\ error' = config.load
       ELSE IF {"data_generation", "output"} \cap config.missing # {}
       THEN pc' = "failed" /\ error' = "KeyError"
       ELSE pc' = "start" /\ UNCHANGED error
    /\ UNCHANGED << variant, config, last_pattern, resummary, written, menu_df, menu_items, customers_df,
                    current_date, hour, weather, temperature, lam, remaining, order_id,
                    customer_id_counter, orders, order_items, sales_data, daily_summary,
                    visits, issued, last_sel >>

\* generate_all_data, steps 1: the master tables; then the loop set-up
RdbGenerateMasters ==
    /\ variant = "rdb" /\ pc = "start"
    /\ IF "menu" \in config.missing
       THEN \* generate_categories raises before any table exists
            /\ pc' = "failed" /\ error' = "KeyError"
            /\ UNCHANGED << menu_df, customers_df, order_id, current_date >>
       ELSE IF "customers" \in config.missing
       THEN /\ menu_df' = generate_menu_items(config)
            /\ pc' = "failed" /\ error' = "KeyError"
            /\ UNCHANGED << customers_df, order_id, current_date >>
       ELSE /\ menu_df' = generate_menu_items(config)
            /\ \E draws \in [1..NumCustomers -> CustomerDraws(config)] :
                  customers_df' =
                      [i \in 1..NumCustomers |-> CustomerRow(config, i, draws[i])]
            /\ order_id' = config.data_generation.id_generation.order_id_start
            /\ current_date' = config.data_generation.start_date
            /\ pc' = "day"
            /\ UNCHANGED error
    /\ UNCHANGED << variant, config, last_pattern, resummary, written, menu_items, hour, weather,
                    temperature, lam, remaining, customer_id_counter, orders,
                    order_items, sales_data, daily_summary, visits, issued, last_sel >>

\* one test of "while current_date <= self.end_date" and the closed-day check
RdbDateLoop ==
    /\ variant = "rdb" /\ pc = "day"
    /\ IF current_date > config.data_generation.end_date
       THEN /\ pc' = "summary"
            /\ UNCHANGED << current_date, weather, temperature, hour >>
       ELSE IF IsClosedDay(current_date, config.data_generation.business_hours.closed_days)
       THEN /\ current_date' = NextDay(current_date)
            /\ UNCHANGED << pc, weather, temperature, hour >>
       ELSE /\ weather' \in RdbWeatherSupport(current_date) \cap WeatherDraws
            /\ temperature' = RdbTempBase(current_date)
            /\ hour' = config.data_generation.business_hours.open
            /\ pc' = "hour"
            /\ UNCHANGED current_date
    /\ UNCHANGED << variant, config, last_pattern, resummary, written, error, menu_df, menu_items, customers_df, lam,
                    remaining, order_id, customer_id_counter, orders, order_items,
                    sales_data, daily_summary, visits, issued, last_sel >>

\* one step of "for hour in range(open, close)": the arrivals of the hour
RdbHourLoop ==
    /\ variant = "rdb" /\ pc = "hour"
    /\ IF HourLoopDone(hour, config.data_generation.business_hours.close)
       THEN /\ current_date' = NextDay(current_date)
            /\ pc' = "day"
            /\ UNCHANGED << lam, remaining, error >>
       ELSE IF "hour_multiplier" \in config.missing
       THEN \* config['data_generation']['hour_multiplier'] raises
            /\ pc' = "failed" /\ error' = "KeyError"
            /\ UNCHANGED << current_date, lam, remaining >>
       ELSE LET dm == _calculate_demand_multiplier(config, current_date, hour, weather)
                expected_customers ==
                    Trunc(config.data_generation.base_customers_per_hour * dm[1], dm[2])
            IN  /\ lam' = config.data_generation.base_customers_per_hour * dm[1]
                /\ \E draw \in PoissonDraws(expected_customers, MaxArrivals) :
                      remaining' = ActualCustomers(draw)
                /\ remaining' <= MaxVisits - visits
                /\ pc' = "visit"
                /\ UNCHANGED << current_date, error >>
    /\ UNCHANGED << variant, config, last_pattern, resummary, written, menu_df, menu_items, customers_df, hour,
                    weather, temperature, order_id, customer_id_counter, orders,
                    order_items, sales_data, daily_summary, visits, issued, last_sel >>

\* the order of one visit is assembled and appended (lines 263-298)
RdbRecordOrder(customer, m, selected) ==
    LET rows == [i \in 1..Len(selected) |-> RdbOrderItem(order_id, menu_df, selected[i])]
        total_amount == SumSeq([i \in 1..Len(rows) |-> rows[i].subtotal])
    IN  /\ orders' = Append(orders,
              [order_id |-> order_id, customer_id |-> customer.customer_id,
               order_datetime |-> RdbOrderDatetime(current_date, hour, m),
               weather_condition |-> weather, temperature |-> temperature,
               is_weekend |-> (Weekday(current_date) >= 5),
               total_amount |-> total_amount])
        /\ order_items' = order_items \o rows
        /\ issued' = Append(issued, [order_id |-> order_id, customer_id |-> customer.customer_id])
        /\ order_id' = NextId(order_id)
        /\ remaining' = remaining - 1
        /\ visits' = visits + 1
        /\ UNCHANGED << pc, error, hour >>

RdbFail(exc) ==
    /\ pc' = "failed"
    /\ error' = exc
    /\ UNCHANGED << hour, remaining, order_id, orders, order_items, visits, issued >>

\* one pass of "for _ in range(actual_customers)", or the end of that loop
RdbVisit ==
    /\ variant = "rdb" /\ pc = "visit"
    /\ IF remaining = 0
       THEN /\ hour' = hour + 1
            /\ pc' = "hour"
            /\ UNCHANGED << error, remaining, order_id, orders, order_items, visits,
                            issued, last_sel >>
       ELSE \E c \in 1..Len(customers_df), m \in MinuteDraws :
              LET customer == customers_df[c]
                  available_menu == RdbAvailableMenu(menu_df, hour)
                  weights == RdbWeights(available_menu, current_date)
              IN  IF RdbPreferencesMissing(config, customer)
                  THEN /\ last_sel' = Sel("lookup", <<>>, 0, customer)
                       /\ RdbFail("KeyError")
                  ELSE IF Len(available_menu) = 0
                  THEN /\ last_sel' = Sel("no_candidates", <<>>, 0, customer)
                       /\ RdbRecordOrder(customer, m, <<>>)
                  ELSE IF ~WeightSumPositive(weights)
                  THEN /\ last_sel' = Sel("weights", weights, 0, customer)
                       /\ RdbRecordOrder(customer, m, <<>>)
                  ELSE IF ChoiceRaises(weights)
                  THEN /\ last_sel' = Sel("raised", weights, 0, customer)
                       /\ RdbFail("ValueError")
                  ELSE \E first \in ChoiceSupport(weights),
                          extra \in {0} \cup ChoiceSupport(weights) :
                         LET selected ==
                               RdbSelected(available_menu[first].menu_id, extra # 0,
                                           IF extra = 0 THEN 0
                                           ELSE available_menu[extra].menu_id)
                         IN  /\ last_sel' = Sel("weights", weights, Len(selected), customer)
                             /\ RdbRecordOrder(customer, m, selected)
    /\ UNCHANGED << variant, config, last_pattern, resummary, written, menu_df, menu_items, customers_df, current_date,
                    weather, temperature, lam, customer_id_counter, sales_data,
                    daily_summary >>

\* generate_all_data, step 3: generate_daily_summary(orders_df, order_items_df)
RdbDailySummary ==
    /\ variant = "rdb" /\ pc = "summary"
    /\ IF RdbSummaryRaises(orders, order_items)
       THEN /\ pc' = "failed"
            /\ error' = "KeyError"
            /\ UNCHANGED daily_summary
       ELSE IF "data_quality" \in config.missing
       THEN \* the summary is computed, then config['data_quality'] raises
            /\ pc' = "failed"
            /\ error' = "KeyError"
            /\ UNCHANGED daily_summary
       ELSE /\ daily_summary' = generate_daily_summary(orders, order_items)
            /\ pc' = IF config.data_quality.noise_injection.missing_data_rate > 0
                     THEN "noise" ELSE "done"
            /\ UNCHANGED error
    /\ UNCHANGED << variant, config, last_pattern, resummary, written, menu_df, menu_items, customers_df, current_date,
                    hour, weather, temperature, lam, remaining, order_id,
                    customer_id_counter, orders, order_items, sales_data, visits,
                    issued, last_sel >>

\* _inject_noise(orders_df, order_items_df)
RdbInjectNoise ==
    /\ variant = "rdb" /\ pc = "noise"
    /\ LET noise_config == config.data_quality.noise_injection
       IN  /\ IF noise_config.missing_data_rate > 0
              THEN \E S \in IndexChoices(Len(orders),
                                NoiseSize(Len(orders), noise_config.missing_data_rate)) :
                      orders' = [i \in 1..Len(orders) |->
                                    IF i \in S THEN MissingRow(orders[i]) ELSE orders[i]]
              ELSE UNCHANGED orders
           /\ IF noise_config.outlier_rate > 0
              THEN \E S \in IndexChoices(Len(order_items),
                                NoiseSize(Len(order_items), noise_config.outlier_rate)) :
                      order_items' = [i \in 1..Len(order_items) |->
                                    IF i \in S THEN OutlierRow(order_items[i])
                                    ELSE order_items[i]]
              ELSE UNCHANGED order_items
    /\ pc' = "done"
    /\ UNCHANGED << variant, config, last_pattern, resummary, written, error, menu_df, menu_items, customers_df,
                    current_date, hour, weather, temperature, lam, remaining, order_id,
                    customer_id_counter, sales_data, daily_summary, visits, issued,
                    last_sel >>

\* a further call generate_daily_summary(data.orders, data.order_items) on the
\* tables generate_all_data returned
RdbReaggregate ==
    /\ variant = "rdb" /\ pc \in {"done", "reaggregated"}
    /\ ~RdbSummaryRaises(orders, order_items)
    /\ resummary' = SummaryResult(resummary, generate_daily_summary(orders, order_items))
    /\ pc' = "reaggregated"
    /\ UNCHANGED << variant, config, last_pattern, written, error, menu_df, menu_items, customers_df,
                    current_date, hour, weather, temperature, lam, remaining, order_id,
                    customer_id_counter, orders, order_items, sales_data, daily_summary,
                    visits, issued, last_sel >>

\* export_data() after generate_all_data (main)
RdbExportData ==
    /\ variant = "rdb" /\ pc = "done"
    /\ LET run == RdbExportRun(config.output.formats, config.failing_write, {})
       IN  /\ written' = run.written
           /\ error' = run.error
           /\ pc' = IF run.error = "none" THEN "exported" ELSE "failed"
    /\ UNCHANGED << variant, config, last_pattern, resummary, menu_df, menu_items, customers_df,
                    current_date, hour, weather, temperature, lam, remaining, order_id,
                    customer_id_counter, orders, order_items, sales_data, daily_summary,
                    visits, issued, last_sel >>

(* ------------------------ chapter-1 generator -------------------------- *)
\* CafeDataGenerator(): _load_config, _prepare_menu_items and
\* _prepare_customer_patterns
Ch1Init ==
    /\ variant = "ch1" /\ pc = "new"
    /\ IF config.load # "ok"
       THEN /\ pc' = "failed" /\ error' = config.load
            /\ UNCHANGED menu_items
       ELSE IF {"menu", "customers"} \cap config.missing # {}
       THEN /\ pc' = "failed" /\ error' = "KeyError"
            /\ UNCHANGED menu_items
       ELSE /\ menu_items' = _prepare_menu_items(config)
            /\ pc' = "start"
            /\ UNCHANGED error
    /\ UNCHANGED << variant, config, last_pattern, resummary, written, menu_df, customers_df,
                    current_date, hour, weather, temperature, lam, remaining, order_id,
                    customer_id_counter, orders, order_items, sales_data, daily_summary,
                    visits, issued, last_sel >>

\* the set-up of generate_sales_data (lines 318-330)
Ch1Start ==
    /\ variant = "ch1" /\ pc = "start"
    /\ IF "data_generation" \in config.missing
       THEN /\ pc' = "failed" /\ error' = "KeyError"
            /\ UNCHANGED << customer_id_counter, order_id, current_date >>
       ELSE /\ customer_id_counter' = config.data_generation.id_generation.customer_id_start
            /\ order_id' = config.data_generation.id_generation.order_id_start
            /\ current_date' = config.data_generation.start_date
            /\ pc' = "day"
            /\ UNCHANGED error
    /\ UNCHANGED << variant, config, last_pattern, resummary, written, menu_df, menu_items,
                    customers_df, hour, weather, temperature, lam, remaining, orders,
                    order_items, sales_data, daily_summary, visits, issued, last_sel >>

\* one test of "while current_date <= end_date" and the closed-day check
Ch1DateLoop ==
    /\ variant = "ch1" /\ pc = "day"
    /\ IF current_date > config.data_generation.end_date
       THEN /\ pc' = "summary"
            /\ UNCHANGED << current_date, hour >>
       ELSE IF IsClosedDay(current_date, config.data_generation.business_hours.closed_days)
       THEN /\ current_date' = NextDay(current_date)
            /\ UNCHANGED << pc, hour >>
       ELSE /\ hour' = config.data_generation.business_hours.open
            /\ pc' = "hour"
            /\ UNCHANGED current_date
    /\ UNCHANGED << variant, config, last_pattern, resummary, written, error, menu_df, menu_items, customers_df, weather,
                    temperature, lam, remaining, order_id, customer_id_counter, orders,
                    order_items, sales_data, daily_summary, visits, issued, last_sel >>

\* one step of "for hour in range(open_hour, close_hour)":
\* _calculate_hourly_customers(current_date, hour)
Ch1HourLoop ==
    /\ variant = "ch1" /\ pc = "hour"
    /\ IF HourLoopDone(hour, config.data_generation.business_hours.close)
       THEN /\ current_date' = NextDay(current_date)
            /\ pc' = "day"
            /\ UNCHANGED << lam, remaining, error >>
       ELSE IF "hour_multiplier" \in config.missing
       THEN \* config["data_generation"]["hour_multiplier"] raises
            /\ pc' = "failed" /\ error' = "KeyError"
            /\ UNCHANGED << current_date, lam, remaining >>
       ELSE \E w \in Ch1WeatherSupport(current_date) \cap WeatherDraws :
              LET customers == Ch1Lambda(config, current_date, hour, w)
              IN  /\ lam' = customers[1]
                  /\ \E draw \in PoissonDraws(customers[1], MaxArrivals) :
                        remaining' = ActualCustomers(draw)
                  /\ remaining' <= MaxVisits - visits
                  /\ pc' = "visit"
                  /\ UNCHANGED << current_date, error >>
    /\ UNCHANGED << variant, config, last_pattern, resummary, written, menu_df, menu_items, customers_df, hour,
                    weather, temperature, order_id, customer_id_counter, orders,
                    order_items, sales_data, daily_summary, visits, issued, last_sel >>

\* the rows of one visit are appended and both counters advance (lines 372-408)
Ch1RecordVisit(demo, customer_orders, time, row_weather) ==
    /\ sales_data' = sales_data \o
          [i \in 1..Len(customer_orders) |->
              Ch1Row(order_id, customer_id_counter,
                     Ch1Timestamp(current_date, hour, time[1], time[2]),
                     current_date, hour, customer_orders[i], row_weather[i], demo)]
    /\ issued' = Append(issued, [order_id |-> order_id, customer_id |-> customer_id_counter])
    /\ customer_id_counter' = NextId(customer_id_counter)
    /\ order_id' = NextId(order_id)
    /\ UNCHANGED << pc, error, hour >>

Ch1Fail(exc) ==
    /\ pc' = "failed"
    /\ error' = exc
    /\ UNCHANGED << hour, order_id, customer_id_counter, sales_data, issued >>

\* one pass of "for customer in range(customers)", or the end of that loop
Ch1Visit ==
    /\ variant = "ch1" /\ pc = "visit"
    /\ IF remaining = 0
       THEN /\ hour' = hour + 1
            /\ pc' = "hour"
            /\ UNCHANGED << error, remaining, order_id, customer_id_counter, sales_data,
                            visits, issued, last_sel, last_pattern >>
       ELSE /\ remaining' = remaining - 1
            /\ visits' = visits + 1
            /\ last_pattern' =
                  [called |-> TRUE, date |-> current_date, hour |-> hour,
                   demographics |->
                       _get_customer_pattern(config.customers.behavioral_patterns,
                                             current_date, hour).demographics]
            /\ \E demo \in DemographicDraws(config,
                              _get_customer_pattern(config.customers.behavioral_patterns,
                                                    current_date, hour)) :
                 LET available_items == Ch1AvailableItems(menu_items, hour)
                     weights == Ch1Weights(config, available_items, demo, current_date)
                 IN  IF ~HasAgeGroup(config, demo.age_group)
                     THEN \* next(ag for ag in age_config if ...) finds no bracket
                          /\ Ch1Fail("StopIteration")
                          /\ UNCHANGED last_sel
                     ELSE IF Len(available_items) = 0
                     THEN /\ last_sel' = Sel("no_candidates", <<>>, 0, demo)
                          /\ UNCHANGED << pc, error, hour, order_id, customer_id_counter,
                                          sales_data, issued >>
                     ELSE \E num_orders \in NumOrdersDraws, time \in TimeDraws :
                            IF ~WeightSumPositive(weights)
                            THEN /\ last_sel' = Sel("weights", weights, 0, demo)
                                 /\ Ch1RecordVisit(demo, <<>>, time, <<>>)
                            ELSE IF ChoiceRaises(weights)
                            THEN /\ last_sel' = Sel("raised", weights, 0, demo)
                                 /\ Ch1Fail("ValueError")
                            ELSE \E picks \in [1..num_orders -> ChoiceSupport(weights)],
                                    row_weather \in [1..num_orders ->
                                       Ch1WeatherSupport(current_date) \cap WeatherDraws] :
                                   /\ last_sel' = Sel("weights", weights, num_orders, demo)
                                   /\ Ch1RecordVisit(demo,
                                        [i \in 1..num_orders |-> available_items[picks[i]]],
                                        time, row_weather)
    /\ UNCHANGED << variant, config, resummary, written, menu_df, menu_items,
                    customers_df, current_date, weather, temperature, lam, orders,
                    order_items, daily_summary >>

\* main after generate_sales_data: display_data_info(df), then save_data up to
\* the end of _save_csv(df, output_dir), which aggregates df
Ch1DailySummary ==
    /\ variant = "ch1" /\ pc = "summary"
    /\ IF Ch1SummaryRaises(sales_data)
       THEN \* df['日付'] of a frame without columns: display_data_info raises
            \* before save_data writes anything
            /\ pc' = "failed"
            /\ error' = "KeyError"
            /\ UNCHANGED << daily_summary, written >>
       ELSE IF config.failing_write = "csv"
       THEN /\ pc' = "failed"
            /\ error' = "OSError"
            /\ UNCHANGED << daily_summary, written >>
       ELSE /\ daily_summary' = _create_daily_summary(sales_data)
            /\ written' = written \cup {"csv"}
            /\ pc' = "done"
            /\ UNCHANGED error
    /\ UNCHANGED << variant, config, last_pattern, resummary, menu_df, menu_items, customers_df,
                    current_date, hour, weather, temperature, lam, remaining, order_id,
                    customer_id_counter, orders, order_items, sales_data, visits,
                    issued, last_sel >>

\* save_data: _save_json(df, output_dir), which aggregates df again
Ch1SaveJson ==
    /\ variant = "ch1" /\ pc = "done"
    /\ IF config.failing_write = "json"
       THEN /\ pc' = "failed"
            /\ error' = "OSError"
            /\ UNCHANGED << resummary, written >>
       ELSE /\ resummary' = SummaryResult(resummary, _create_daily_summary(sales_data))
            /\ written' = written \cup {"json"}
            /\ pc' = "json"
            /\ UNCHANGED error
    /\ UNCHANGED << variant, config, last_pattern, menu_df, menu_items, customers_df, current_date,
                    hour, weather, temperature, lam, remaining, order_id,
                    customer_id_counter, orders, order_items, sales_data, daily_summary,
                    visits, issued, last_sel >>

\* save_data: _save_xlsx(df, output_dir); the sheets are aggregated again and
\* the workbook is written when the ExcelWriter closes; every exception of
\* the body is caught and printed
Ch1SaveXlsx ==
    /\ variant = "ch1" /\ pc = "json"
    /\ resummary' = SummaryResult(resummary, _create_daily_summary(sales_data))
    /\ written' = IF config.failing_write = "xlsx" THEN written ELSE written \cup {"xlsx"}
    /\ pc' = "exported"
    /\ UNCHANGED << variant, config, last_pattern, error, menu_df, menu_items, customers_df,
                    current_date, hour, weather, temperature, lam, remaining, order_id,
                    customer_id_counter, orders, order_items, sales_data, daily_summary,
                    visits, issued, last_sel >>

Next ==
    \/ RdbInit
    \/ RdbGenerateMasters
    \/ RdbDateLoop
    \/ RdbHourLoop
    \/ RdbVisit
    \/ RdbDailySummary
    \/ RdbInjectNoise
    \/ RdbReaggregate
    \/ RdbExportData
    \/ Ch1Init
    \/ Ch1Start
    \/ Ch1DateLoop
    \/ Ch1HourLoop
    \/ Ch1Visit
    \/ Ch1DailySummary
    \/ Ch1SaveJson
    \/ Ch1SaveXlsx

Spec == Init /\ [][Next]_vars

\* the configurations of the termination check: one or two days, open, closed
\* on the first day, closed on every weekday, without a business hour, with
\* fractional expected arrivals, and with the noise pass on
TerminationConfigs ==
    { Cfg(SunOnly, {}, Hours9to10, 3, NoTable, NoTable, MenuSingle, PrefsFull, PatternsMale, Noise(0, 0)),
      Cfg(SunOnly, {}, Hours9to10, 3, NoTable, NoTable, MenuSingle, PrefsFull, PatternsMale, Noise(5, 5)),
      Cfg(SunOnly, {6}, Hours9to10, 3, NoTable, NoTable, MenuSingle, PrefsFull, PatternsMale, Noise(0, 0)),
      Cfg(SunMon, {6}, Hours9to10, 3, NoTable, NoTable, MenuSingle, PrefsFull, PatternsMale, Noise(0, 0)),
      Cfg(SunMon, 0..6, Hours9to10, 3, NoTable, NoTable, MenuSingle, PrefsFull, PatternsMale, Noise(0, 0)),
      Cfg(SunMon, {}, Hours10to9, 3, NoTable, NoTable, MenuSingle, PrefsFull, PatternsMale, Noise(0, 0)),
      Cfg(SunOnly, {}, Hours9to10, 1, HourTable, NoTable, MenuSingle, PrefsFull, PatternsMale, Noise(0, 0)) }

LiveInit == Init /\ config \in TerminationConfigs

\* the interpreter keeps executing the program: a step that can be taken is
\* eventually taken
LiveSpec == LiveInit /\ [][Next]_vars /\ WF_vars(Next)


(* ============================== properties ============================= *)
\* the configured menu item of an identifier
ConfigItem(id) ==
    config.menu.items[CHOOSE i \in 1..Len(config.menu.items) : config.menu.items[i].id = id]

\* the hours some configured menu item lists
ListedHours ==
    UNION {Range(config.menu.items[i].available_hours) : i \in 1..Len(config.menu.items)}

\* the RDB order of an order_items row
OrderOf(oid) == orders[CHOOSE i \in 1..Len(orders) : orders[i].order_id = oid]

\* date and hour of a chapter-1 row, read back from its timestamp
Ch1DateOf(ts) == ts \div 86400
Ch1HourOf(ts) == (ts % 86400) \div 3600

\* number of output lines that carry an order identifier
LinesOf(oid) ==
    IF variant = "rdb" THEN Len(ItemsOf(order_items, oid))
    ELSE Len(SelectSeq(sales_data, LAMBDA r : r.order_id = oid))

\* C1: in the tables generate_all_data returns, every order's total_amount
\* equals the sum of the subtotals of the order_items rows of that order.
C1_TotalAmountIsSumOfSubtotals ==
    (variant = "rdb" /\ pc = "done") =>
        \A i \in 1..Len(orders) :
            orders[i].total_amount = SubtotalOf(order_items, orders[i].order_id)

\* C2: every RDB order_items row, before and after the noise pass, has
\* subtotal = unit_price * quantity and quantity >= 1.
C2_SubtotalIsPriceTimesQuantity ==
    variant = "rdb" =>
        \A i \in 1..Len(order_items) :
            /\ order_items[i].subtotal = order_items[i].unit_price * order_items[i].quantity
            /\ order_items[i].quantity >= 1

\* C2 witness: returned tables in which the noise pass inflated a row
C2_Witness ==
    /\ variant = "rdb" /\ pc = "done"
    /\ \E i \in 1..Len(order_items) :
          order_items[i].unit_price = 10 * ConfigItem(order_items[i].menu_id).price

\* C3: for every generated order line, the available-hours list of its menu
\* item contains the hour of the order.
C3_ItemListsOrderHour ==
    /\ variant = "rdb" =>
          \A i \in 1..Len(order_items) :
              HourOf(OrderOf(order_items[i].order_id).order_datetime)
                  \in Range(ConfigItem(order_items[i].menu_id).available_hours)
    /\ variant = "ch1" =>
          \A i \in 1..Len(sales_data) :
              Ch1HourOf(sales_data[i].datetime)
                  \in Range(ConfigItem(sales_data[i].product_id).available_hours)

\* C4: every generated order has an hour h with open <= h < close and a date
\* whose weekday is not a closed day.
C4_OrderWithinBusinessHours ==
    LET bh == config.data_generation.business_hours
        Ok(d, h) == /\ bh.open <= h /\ h < bh.close
                    /\ Weekday(d) \notin bh.closed_days
    IN  /\ \A i \in 1..Len(orders) :
              Ok(DateOf(orders[i].order_datetime), HourOf(orders[i].order_datetime))
        /\ \A i \in 1..Len(sales_data) :
              Ok(Ch1DateOf(sales_data[i].datetime), Ch1HourOf(sales_data[i].datetime))

\* C4 witness: an order drawn at minute 59 on the open day after a closed day
C4_Witness ==
    /\ config.data_generation.business_hours.closed_days # {}
    /\ \E i \in 1..Len(orders) : orders[i].order_datetime % 60 = 59

\* C5: an hour that no menu item lists contributes no order to the output.
C5_NoOrderInUnlistedHour ==
    /\ \A i \in 1..Len(orders) : HourOf(orders[i].order_datetime) \in ListedHours
    /\ \A i \in 1..Len(sales_data) : Ch1HourOf(sales_data[i].datetime) \in ListedHours

\* C6: when start_date = end_date is a closed day, the run completes with
\* zero orders and an empty daily summary, without an error.
C6_ClosedSingleDayCompletes ==
    LET dg == config.data_generation
    IN  ( /\ dg.start_date = dg.end_date
          /\ Weekday(dg.start_date) \in dg.business_hours.closed_days
          /\ pc \in {"done", "failed"} )
        => ( /\ pc = "done" /\ error = "none"
             /\ orders = <<>> /\ sales_data = <<>> /\ daily_summary = <<>> )

\* C7: when the weights of the candidates of a visit sum to 0 or less, the
\* selection of that visit is empty and raises no exception.
C7_NonPositiveWeightsSelectNothing ==
    ( /\ last_sel.stage \in {"weights", "raised"}
      /\ SumSeq(last_sel.weights) <= 0 )
    => ( /\ last_sel.stage = "weights"
         /\ last_sel.size = 0
         /\ LinesOf(issued[Len(issued)].order_id) = 0 )

\* C7 witness: a visit whose candidates had weights summing to 0 or less
C7_Witness ==
    /\ last_sel.stage = "weights"
    /\ Len(last_sel.weights) > 0
    /\ SumSeq(last_sel.weights) <= 0

\* C8: when the expected arrivals of an hour are 0, the realized arrival
\* count is 0, no error is raised and the hour produces no visit.
C8_ZeroLambdaNoArrivals ==
    (pc = "visit" /\ lam = 0) =>
        /\ remaining = 0
        /\ error = "none"
        /\ \A i \in 1..Len(orders) :
              ~ ( /\ DateOf(orders[i].order_datetime) = current_date
                  /\ HourOf(orders[i].order_datetime) = hour )
        /\ \A i \in 1..Len(sales_data) :
              ~ (sales_data[i].date = current_date /\ sales_data[i].hour = hour)

\* C8 witness: an hour whose composite multiplier is 0 with a positive base rate
C8_Witness ==
    /\ pc = "visit" /\ lam = 0
    /\ config.data_generation.base_customers_per_hour > 0

\* C9: identifiers given to distinct visits are distinct and increase in
\* generation order; the output carries them in that order.
C9_IdentifiersIncrease ==
    /\ \A i, j \in 1..Len(issued) :
          i < j => /\ issued[i].order_id < issued[j].order_id
                   /\ variant = "ch1" => issued[i].customer_id < issued[j].customer_id
    /\ \A i, j \in 1..Len(orders) : i < j => orders[i].order_id < orders[j].order_id
    /\ \A i \in 1..Len(orders) : orders[i].order_id = issued[i].order_id
    /\ \A i, j \in 1..Len(sales_data) :
          i < j => /\ sales_data[i].order_id <= sales_data[j].order_id
                   /\ sales_data[i].customer_id <= sales_data[j].customer_id
    /\ \A i \in 1..Len(sales_data) :
          \E k \in 1..Len(issued) :
              /\ issued[k].order_id = sales_data[i].order_id
              /\ issued[k].customer_id = sales_data[i].customer_id

\* C9 witness: a chapter-1 run that recorded rows for two visits
C9_Witness ==
    /\ variant = "ch1"
    /\ Len(issued) >= 2
    /\ \E i, j \in 1..Len(sales_data) : sales_data[i].order_id # sales_data[j].order_id

\* C10: the output never holds two lines with the same order identifier and
\* the same menu item identifier.
C10_OneLinePerOrderAndItem ==
    /\ \A i, j \in 1..Len(order_items) :
          (i # j /\ order_items[i].order_id = order_items[j].order_id)
              => order_items[i].menu_id # order_items[j].menu_id
    /\ \A i, j \in 1..Len(sales_data) :
          (i # j /\ sales_data[i].order_id = sales_data[j].order_id)
              => sales_data[i].product_id # sales_data[j].product_id

\* a step in which the aggregator ran again on the generated tables
AggregatorCalledAgain ==
    \/ variant = "rdb" /\ pc \in {"done", "reaggregated"} /\ pc' = "reaggregated"
    \/ variant = "ch1" /\ pc = "done" /\ pc' = "json"
    \/ variant = "ch1" /\ pc = "json" /\ pc' = "exported"

\* the tables are still the ones the first aggregation of the run read
TablesAsAggregated ==
    variant = "ch1" \/ config.data_quality.noise_injection.missing_data_rate = 0

FactorOrNeutral(table, key) == IF key \in DOMAIN table THEN table[key] ELSE 10

\* the four table factors of the demand estimator for (date, hour, weather),
\* each neutral when absent (scale 1/10000)
TableFactors(weekday_table, weekday_key, date, h, w) ==
    LET dg == config.data_generation
    IN  FactorOrNeutral(weekday_table, weekday_key)
          * FactorOrNeutral(dg.hour_multiplier, h)
          * FactorOrNeutral(dg.weather_multiplier, w)
          * FactorOrNeutral(dg.seasonal_multiplier, Month(date))

\* the (gender, age bracket) preference for a category name, 1.0 if absent
PreferenceOrNeutral(gender, age_group, category) ==
    LET prefs == config.customers.preferences
    IN  IF /\ gender \in DOMAIN prefs
           /\ age_group \in DOMAIN prefs[gender]
           /\ category \in DOMAIN prefs[gender][age_group]
        THEN prefs[gender][age_group][category]
        ELSE 10

\* C12: every multiplier lookup and the category-preference lookup resolve to
\* 1.0 when the key is absent, and no lookup raises an error.
C12_AbsentKeysAreNeutral ==
    LET dg == config.data_generation
    IN  /\ last_sel.stage # "lookup"
        /\ (variant = "rdb" /\ pc = "visit") =>
              lam = dg.base_customers_per_hour
                      * TableFactors(dg.int_keys, Weekday(current_date), current_date,
                                     hour, weather)
                      * RdbEventFactor(dg.special_events, current_date)
        /\ (variant = "ch1" /\ pc = "visit") =>
              \E w \in Ch1WeatherSupport(current_date) :
                  lam = dg.base_customers_per_hour
                          * TableFactors(dg.str_keys, Str(Weekday(current_date)),
                                         current_date, hour, w)
        /\ (variant = "ch1" /\ last_sel.stage \in {"weights", "raised"}) =>
              LET cand == Ch1AvailableItems(menu_items, last_sel.hour)
              IN  \A i \in 1..Len(cand) :
                      last_sel.weights[i] =
                          _apply_seasonal_adjustment(cand[i], last_sel.date)
                            * PreferenceOrNeutral(last_sel.gender, last_sel.age_group,
                                                  cand[i].category)

\* the configuration sections the code of a variant reads
RequiredSections ==
    IF variant = "rdb"
    THEN {"data_generation", "menu", "customers", "output", "data_quality"}
    ELSE {"data_generation", "menu", "customers"}

\* the configuration file is missing or malformed, or lacks a section that is
\* read or a key of data_generation that is read
ConfigurationError ==
    \/ config.load # "ok"
    \/ config.missing \cap (RequiredSections \cup {"hour_multiplier"}) # {}

\* C13: a configuration error aborts the run before any customer, order or
\* order-item record is generated, and nothing is exported.
C13_ConfigErrorFailsFast ==
    ConfigurationError =>
        /\ customers_df = <<>> /\ orders = <<>> /\ order_items = <<>>
        /\ sales_data = <<>>
        /\ written = {}
        /\ pc \notin {"done", "exported", "reaggregated"}

\* the write whose failure the export operation of the variant has to report
ReportedWrite == IF variant = "rdb" THEN "db" ELSE "xlsx"

\* C14: when the database write (RDB) or the spreadsheet write (chapter 1)
\* fails, the export does not return normally: the run ends with an error.
C14_ExportErrorSurfaces ==
    config.failing_write = ReportedWrite =>
        /\ pc # "exported"
        /\ ReportedWrite \notin written

\* the number of item draws recorded for an order: the total quantity of its
\* lines (RDB), the number of its rows (chapter 1, one row per draw)
DrawsOf(items, rows, oid) ==
    IF variant = "rdb" THEN QuantityOf(items, oid)
    ELSE Len(SelectSeq(rows, LAMBDA r : r.order_id = oid))

\* the next visit has a customer whose candidates have a positive weight sum
\* that the draw accepts
NextVisitSelects ==
    /\ pc = "visit" /\ remaining > 0
    /\ IF variant = "rdb"
       THEN LET w == RdbWeights(RdbAvailableMenu(menu_df, hour), current_date)
            IN  /\ Len(w) > 0 /\ SumSeq(w) > 0 /\ ~ChoiceRaises(w)
                /\ \A c \in 1..Len(customers_df) :
                      ~RdbPreferencesMissing(config, customers_df[c])
       ELSE \A demo \in DemographicDraws(config,
                           _get_customer_pattern(config.customers.behavioral_patterns,
                                                 current_date, hour)) :
              LET w == Ch1Weights(config, Ch1AvailableItems(menu_items, hour), demo,
                                  current_date)
              IN  Len(w) > 0 /\ SumSeq(w) > 0 /\ ~ChoiceRaises(w)

\* C15: a visit with a candidate and a positive weight sum makes 1, 2 or 3
\* item draws, and each of the three counts can occur.
C15_OneToThreeDraws ==
    /\ (last_sel.stage = "weights" /\ last_sel.size > 0) =>
          DrawsOf(order_items, sales_data, issued[Len(issued)].order_id) \in {1, 2, 3}
    /\ NextVisitSelects =>
          \A k \in {1, 2, 3} :
              ENABLED ( /\ Next
                        /\ visits' = visits + 1
                        /\ DrawsOf(order_items', sales_data', order_id) = k )

\* the months of a season name
SeasonMonths(season) ==
    IF season = "spring" THEN {3, 4, 5}
    ELSE IF season = "summer" THEN {6, 7, 8}
    ELSE IF season = "autumn" THEN {9, 10, 11}
    ELSE IF season = "winter" THEN {12, 1, 2}
    ELSE {}

\* the item's own seasonal_multiplier in its preferred season, else 1.0
SeasonalAdjustment(item, date) ==
    IF item.is_seasonal /\ Month(date) \in SeasonMonths(item.seasonal_preference)
    THEN item.seasonal_multiplier
    ELSE 10

\* the candidates of the recorded selection, as configured items
SelCandidates ==
    IF variant = "rdb"
    THEN LET am == RdbAvailableMenu(menu_df, last_sel.hour)
         IN  [i \in 1..Len(am) |-> ConfigItem(am[i].menu_id)]
    ELSE LET ai == Ch1AvailableItems(menu_items, last_sel.hour)
         IN  [i \in 1..Len(ai) |-> ConfigItem(ai[i].id)]

\* the recorded weights on the scale 1/1000
SelWeights ==
    IF variant = "rdb" THEN [i \in 1..Len(last_sel.weights) |-> 10 * last_sel.weights[i]]
    ELSE last_sel.weights

\* C16: the selection weight of every candidate is base popularity times the
\* item's seasonal adjustment times the customer's category preference.
C16_WeightIsPopularitySeasonPreference ==
    last_sel.stage \in {"weights", "raised"} =>
        /\ Len(SelWeights) = Len(SelCandidates)
        /\ \A i \in 1..Len(SelCandidates) :
              SelWeights[i] =
                  SelCandidates[i].popularity_weight
                    * SeasonalAdjustment(SelCandidates[i], last_sel.date)
                    * PreferenceOrNeutral(last_sel.gender, last_sel.age_group,
                                          CategoryName(config, SelCandidates[i].category_id))

\* the multiplier of the first configured event on the date, 1.0 if none
FirstEventFactor(date) ==
    LET events == config.data_generation.special_events
        on == {i \in 1..Len(events) : events[i].date = date}
    IN  IF on = {} THEN 10
        ELSE events[CHOOSE i \in on : \A j \in on : i <= j].multiplier

\* the expected arrivals of the current hour on the scale 1/100000
LambdaScaled == IF variant = "rdb" THEN lam ELSE 10 * lam

\* C17: the composite multiplier of an hour includes the multiplier of the
\* first special event configured for the date exactly once, and no event
\* factor on a date without an event.
C17_FirstMatchingEventApplies ==
    pc = "visit" =>
        LET dg == config.data_generation
            table == IF variant = "rdb" THEN dg.int_keys ELSE dg.str_keys
            key == IF variant = "rdb" THEN Weekday(current_date)
                   ELSE Str(Weekday(current_date))
            weathers == IF variant = "rdb" THEN {weather}
                        ELSE Ch1WeatherSupport(current_date)
        IN  \E w \in weathers :
                LambdaScaled = dg.base_customers_per_hour
                                 * TableFactors(table, key, current_date, hour, w)
                                 * FirstEventFactor(current_date)

\* the indices of the configured patterns whose conditions hold at (date, h)
MatchingPatterns(date, h) ==
    LET patterns == config.customers.behavioral_patterns
    IN  {i \in 1..Len(patterns) :
            /\ (IF Weekday(date) \in {5, 6} THEN "weekend" ELSE "weekday")
                  \in patterns[i].conditions.day_types
            /\ h \in patterns[i].conditions.hours}

\* C18: _get_customer_pattern returns the first configured pattern matching
\* the day type and hour of the visit, and the built-in distribution
\* (male 0.45 / female 0.55; 0.15, 0.35, 0.25, 0.15, 0.10) when none matches.
C18_FirstMatchingPatternOrDefault ==
    (variant = "ch1" /\ last_pattern.called) =>
        LET patterns == config.customers.behavioral_patterns
            on == MatchingPatterns(last_pattern.date, last_pattern.hour)
        IN  IF on = {}
            THEN /\ last_pattern.demographics.gender_ratio = [male |-> 45, female |-> 55]
                 /\ last_pattern.demographics.age_distribution =
                        ("teens" :> 15 @@ "twenties" :> 35 @@ "thirties" :> 25
                         @@ "forties" :> 15 @@ "seniors" :> 10)
            ELSE last_pattern.demographics =
                    patterns[CHOOSE i \in on : \A j \in on : i <= j].demographics

\* C18 witness: a visit at an hour where two patterns of different
\* demographics match
C18_Witness ==
    /\ variant = "ch1" /\ last_pattern.called
    /\ LET patterns == config.customers.behavioral_patterns
           on == MatchingPatterns(last_pattern.date, last_pattern.hour)
       IN  \E i, j \in on : patterns[i].demographics # patterns[j].demographics

\* the daily summary is the aggregation of the tables as they are now
SummaryIsCurrent ==
    /\ daily_summary # <<>>
    /\ \/ pc = "noise"
       \/ pc \in {"done", "json", "exported", "reaggregated"} /\ TablesAsAggregated

\* the dates, the order identifiers of a date and the line amounts of a date,
\* read from the generated tables
GeneratedDates ==
    IF variant = "rdb" THEN {DateOf(orders[i].order_datetime) : i \in 1..Len(orders)}
    ELSE {sales_data[i].date : i \in 1..Len(sales_data)}

OrdersOn(d) ==
    IF variant = "rdb"
    THEN {orders[i].order_id : i \in {j \in 1..Len(orders) :
                                        DateOf(orders[j].order_datetime) = d}}
    ELSE {sales_data[i].order_id : i \in {j \in 1..Len(sales_data) :
                                            sales_data[j].date = d}}

LineAmountsOn(d) ==
    IF variant = "rdb"
    THEN LET rows == SelectSeq(order_items, LAMBDA r : r.order_id \in OrdersOn(d))
         IN  [i \in 1..Len(rows) |-> rows[i].unit_price * rows[i].quantity]
    ELSE LET rows == SelectSeq(sales_data, LAMBDA r : r.date = d)
         IN  [i \in 1..Len(rows) |-> rows[i].unit_price]

\* the order count and the sales the summary reports for a date
ReportedOrders(d) ==
    LET rows == SelectSeq(daily_summary, LAMBDA r : r.date = d)
    IN  SumSeq([i \in 1..Len(rows) |->
                  IF variant = "rdb" THEN rows[i].total_orders ELSE rows[i].order_count])

ReportedSales(d) ==
    LET rows == SelectSeq(daily_summary, LAMBDA r : r.date = d)
    IN  SumSeq([i \in 1..Len(rows) |-> rows[i].total_sales])

\* C19: for every date the summary reports the number of distinct orders
\* generated on that date and the sum of the subtotals of its order lines.
C19_SummaryCountsOrdersAndSales ==
    SummaryIsCurrent =>
        \A d \in GeneratedDates :
            /\ ReportedOrders(d) = Cardinality(OrdersOn(d))
            /\ ReportedSales(d) = SumSeq(LineAmountsOn(d))

\* the arrivals of the current hour are about to be drawn
AtArrivalDraw ==
    /\ pc = "hour"
    /\ ~HourLoopDone(hour, config.data_generation.business_hours.close)
    /\ "hour_multiplier" \notin config.missing
    /\ visits < MaxVisits

\* the expected arrivals base_customers_per_hour * composite multiplier of the
\* current hour are positive (for some weather the hour can have)
LambdaPositive ==
    LET base == config.data_generation.base_customers_per_hour
    IN  IF variant = "rdb"
        THEN base * _calculate_demand_multiplier(config, current_date, hour, weather)[1] > 0
        ELSE \E w \in Ch1WeatherSupport(current_date) \cap WeatherDraws :
                Ch1Lambda(config, current_date, hour, w)[1] > 0

\* C20: the arrival count is drawn with mean lambda itself: whenever lambda is
\* positive, also below 1, a non-zero arrival count is possible for the hour.
C20_PositiveLambdaCanArrive ==
    (AtArrivalDraw /\ LambdaPositive) => ENABLED (Next /\ remaining' > 0)

\* the order identifiers of the output in order of first appearance: the
\* orders table (RDB), the rows of the sales table (chapter 1)
OutputOrderIds ==
    IF variant = "rdb"
    THEN [i \in 1..Len(orders) |-> orders[i].order_id]
    ELSE LET firsts == {i \in 1..Len(sales_data) :
                           \A j \in 1..(i - 1) :
                               sales_data[j].order_id # sales_data[i].order_id}
         IN  [k \in 1..Cardinality(firsts) |->
                 sales_data[CHOOSE i \in firsts :
                                Cardinality({j \in firsts : j < i}) = k - 1].order_id]

\* C21: the k-th order that appears in the output has the identifier
\* order_id_start + k - 1, so the identifiers of the output are contiguous.
C21_OutputOrderIdsContiguous ==
    \A k \in 1..Len(OutputOrderIds) :
        OutputOrderIds[k] = config.data_generation.id_generation.order_id_start + k - 1

\* the generation loop, the aggregation, the noise pass or an export is running
GenerationPhase ==
    pc \in {"day", "hour", "visit", "summary", "noise", "done", "json", "reaggregated"}

\* every prepared menu item carries the fields of its configured item
MenuAsConfigured ==
    LET items == config.menu.items
    IN  IF variant = "rdb"
        THEN /\ Len(menu_df) = Len(items)
             /\ \A i \in 1..Len(items) :
                   /\ menu_df[i].menu_id = items[i].id
                   /\ menu_df[i].category_id = items[i].category_id
                   /\ menu_df[i].price = items[i].price
                   /\ menu_df[i].cost = items[i].cost
                   /\ menu_df[i].available_hours = JsonDumps(items[i].available_hours)
                   /\ menu_df[i].popularity_weight = items[i].popularity_weight
                   /\ menu_df[i].is_seasonal = items[i].is_seasonal
                   /\ menu_df[i].seasonal_preference = items[i].seasonal_preference
                   /\ menu_df[i].seasonal_multiplier = items[i].seasonal_multiplier
        ELSE /\ Len(menu_items) = Len(items)
             /\ \A i \in 1..Len(items) :
                   /\ menu_items[i].id = items[i].id
                   /\ menu_items[i].price = items[i].price
                   /\ menu_items[i].cost = items[i].cost
                   /\ menu_items[i].available_hours = items[i].available_hours
                   /\ menu_items[i].popularity = items[i].popularity_weight
                   /\ menu_items[i].is_seasonal = items[i].is_seasonal
                   /\ menu_items[i].seasonal_preference = items[i].seasonal_preference
                   /\ menu_items[i].seasonal_multiplier = items[i].seasonal_multiplier

\* C22: no step of the generation, the aggregation or the export changes the
\* configuration or a prepared menu item; the menu items keep the fields they
\* were loaded with.
C22_ConfigAndMenuReadOnly ==
    [][ GenerationPhase =>
          /\ config' = config
          /\ menu_df' = menu_df
          /\ menu_items' = menu_items
          /\ MenuAsConfigured /\ MenuAsConfigured' ]_vars

\* C22 witness: a finished run that served a visit, recorded output rows and
\* aggregated them, with the menu as configured
C22_Witness ==
    /\ pc \in {"exported", "reaggregated"}
    /\ visits >= 1
    /\ Len(sales_data) + Len(order_items) >= 1
    /\ Len(resummary) + Len(daily_summary) >= 1
    /\ MenuAsConfigured

\* the generation loop is running: set-up, date loop, hour loop or visit loop
InGenerationLoop == pc \in {"new", "start", "day", "hour", "visit"}

\* the date loop is running
InDateLoop == pc \in {"day", "hour", "visit"}

\* a step that ends one iteration of the date loop and begins the next test
DateLoopIterates == InDateLoop /\ pc' = "day"

\* the current date stays or moves to the next day, at most one past end_date
DateStaysOrAdvances ==
    /\ current_date' \in {current_date, current_date + 1}
    /\ current_date' <= config.data_generation.end_date + 1

\* C23: the generation loop terminates for every date range, closed_days set
\* and business hours of the configuration; every iteration of the date loop,
\* on a closed day as on an open day, advances the current date by exactly
\* one day, and the date never passes the day after end_date.
C23_GenerationLoopTerminates ==
    /\ [][DateLoopIterates => current_date' = current_date + 1]_vars
    /\ [][InDateLoop => DateStaysOrAdvances]_vars
    /\ <>(~InGenerationLoop)

\* C23 witness: the date loop ran past end_date of a two-day range whose days
\* were all closed, or all without a business hour
C23_Witness ==
    /\ pc \in {"summary", "failed"}
    /\ config.load = "ok" /\ config.missing = {}
    /\ config.data_generation.start_date < config.data_generation.end_date
    /\ current_date = config.data_generation.end_date + 1
    /\ \/ config.data_generation.business_hours.closed_days = 0..6
       \/ config.data_generation.business_hours.open
             >= config.data_generation.business_hours.close

\* the weather conditions the output rows of an order, and of a date, carry
WeathersOfOrder(oid) ==
    IF variant = "rdb"
    THEN {orders[i].weather_condition :
             i \in {j \in 1..Len(orders) : orders[j].order_id = oid}}
    ELSE {sales_data[i].weather :
             i \in {j \in 1..Len(sales_data) : sales_data[j].order_id = oid}}

WeathersOn(d) == UNION {WeathersOfOrder(oid) : oid \in OrdersOn(d)}

\* the rows the daily summary holds for a date
SummaryRowsOn(d) == {k \in 1..Len(daily_summary) : daily_summary[k].date = d}

\* C24: the rows of one order, and the orders of one date, carry one weather
\* condition, and the daily summary holds exactly one row for every date that
\* has an order.
C24_OneWeatherAndOneSummaryRowPerDate ==
    /\ \A d \in GeneratedDates :
          /\ \A oid \in OrdersOn(d) : Cardinality(WeathersOfOrder(oid)) = 1
          /\ Cardinality(WeathersOn(d)) = 1
    /\ SummaryIsCurrent =>
          \A d \in GeneratedDates : Cardinality(SummaryRowsOn(d)) = 1

\* generate_all_data has returned its tables
TablesReturned == variant = "rdb" /\ pc \in {"done", "exported", "reaggregated"}

\* the sum of the subtotals of the order_items rows of the orders of a date
SubtotalsOn(d) ==
    LET rows == SelectSeq(order_items, LAMBDA r : r.order_id \in OrdersOn(d))
    IN  SumSeq([i \in 1..Len(rows) |-> rows[i].subtotal])

\* C25: the tables generate_all_data returns are consistent for every noise
\* configuration: the total_sales of each daily_summary row is the sum of the
\* subtotals of the returned order_items of its date, and aggregating the
\* returned orders and order_items again gives the returned daily_summary.
C25_ReturnedTablesConsistent ==
    TablesReturned =>
        /\ \A k \in 1..Len(daily_summary) :
              daily_summary[k].total_sales = SubtotalsOn(daily_summary[k].date)
        /\ generate_daily_summary(orders, order_items) = daily_summary

====
